---- MODULE Spec2Model ----
(***************************************************************************)
(* Model of control/planktoscopehat/planktoscope/light.py: the LM36011     *)
(* driver class i2c_led and the polling controller LightProcess.           *)
(*                                                                         *)
(* The controller is one thread (pc); the stop event and the arrival of    *)
(* MQTT messages are set by other threads and interleave with it.          *)
(* Every operation the controller performs on the chip, the GPIO line or   *)
(* the status topic is appended to `log`, which is emptied whenever a new  *)
(* message is read and when teardown begins.                               *)
(***************************************************************************)
EXTENDS Integers, Sequences, FiniteSets, TLC

\* ------------------------------------------------------------------------
\* Bounds of the model
\* ------------------------------------------------------------------------
\* Largest milliamp value carried by a settings.current of an inbound message
MaxCurrent == 2

\* ------------------------------------------------------------------------
\* i2c_led constants
\* ------------------------------------------------------------------------
Register_flash == 3
Register_flags == 5
Register_id_reset == 6

\* the value force_reset writes, 0b10000000
ResetCommand == 128

\* every value of a register byte
Bytes == 0..255

\* bytes the chip may return to a read of the id/reset register
IdBytes == {0, 1, 24, 63, 64, 88, 128, 255}

\* the range of set_flash_current, "From 11 to 1500mA"
MinFlashCurrent == 11
MaxFlashCurrent == 1500

\* the milliamp values set_flash_current is called with directly
FlashInputs == {0} \cup (MinFlashCurrent..MaxFlashCurrent)

\* Flags bytes the chip may return to a read of the flags register at teardown
FlagBytes == {0, 1, 2, 4, 8, 16, 32, 64, 128, 144, 111, 255}

\* ------------------------------------------------------------------------
\* Inbound messages (the decoded JSON object in light_client.msg["payload"])
\* ------------------------------------------------------------------------
Absent == "absent"

\* an optional value: None, or Some(x)
None == << >>
Some(x) == <<x>>

\* values of the "action" key; Absent: the key is not in the message
Actions == {Absent, "on", "off", "blink"}

\* values of the "settings" key, by Python type:
\*   dict : has  <=> the key "current" is in the dict, current its value
\*   list : has  <=> the string "current" is an element of the list
\*   str  : has  <=> "current" is a substring of the string
\*   int  : a number (not a container)
SettingsValues ==
    {[shape |-> Absent, has |-> FALSE, current |-> None]}
    \cup {[shape |-> "dict", has |-> TRUE, current |-> Some(m)] : m \in 0..MaxCurrent}
    \cup {[shape |-> "dict", has |-> FALSE, current |-> None]}
    \cup {[shape |-> s, has |-> h, current |-> None] :
              s \in {"list", "str"}, h \in BOOLEAN}
    \cup {[shape |-> "int", has |-> FALSE, current |-> None]}

Messages == [action : Actions, settings : SettingsValues]

NoMsg == [action |-> "none", settings |-> [shape |-> "none", has |-> FALSE, current |-> None]]

HasAction(m) == m.action # Absent
HasSettings(m) == m.settings.shape # Absent

\* Python's  "current" in last_message["settings"]
InSettings(s) ==
    CASE s.shape = "int" -> "TypeError"
      [] s.has -> "True"
      [] OTHER -> "False"

\* Python's  last_message["settings"]["current"]  (only evaluated when
\* InSettings is "True"): a str or list subscripted by a str raises
Subscript(s) == IF s.shape = "dict" THEN "ok" ELSE "TypeError"

\* ------------------------------------------------------------------------
\* Log entries
\* ------------------------------------------------------------------------
Entry(part, op, reg, val, status, arg) ==
    [part |-> part, op |-> op, reg |-> reg, val |-> val, status |-> status, arg |-> arg]

Publish(part, status, arg) == Entry(part, "publish", None, None, status, arg)
GpioHigh(part) == Entry(part, "gpio_high", None, None, "", None)
GpioCleanup(part) == Entry(part, "gpio_cleanup", None, None, "", None)
Write(part, reg, val) == Entry(part, "write", Some(reg), Some(val), "", None)
Read(part, reg, val) == Entry(part, "read", Some(reg), Some(val), "", None)
GetState(part, val) == Entry(part, "get_state", None, Some(val), "", None)
GpioSetup(part) == Entry(part, "gpio_setup", None, None, "", None)
\* a bus transaction that raised
WriteFail(part, reg, val) == Entry(part, "write_failed", Some(reg), Some(val), "", None)
ReadFail(part, reg) == Entry(part, "read_failed", Some(reg), None, "", None)

\* the state of the select line after the GPIO operations among the entries
RECURSIVE gpio_after(_, _)
gpio_after(g, entries) ==
    IF entries = << >> THEN g
    ELSE gpio_after(CASE Head(entries).op = "gpio_high" -> "high"
                      [] Head(entries).op = "gpio_low" -> "low"
                      [] Head(entries).op = "gpio_cleanup" -> "released"
                      [] OTHER -> g,
                    Tail(entries))

\* ------------------------------------------------------------------------
\* History of the status topic
\* ------------------------------------------------------------------------
NoPubs == [first |-> "", ready |-> 0, dead |-> 0, after_dead |-> FALSE]

\* the history after one more status
Note(p, status) ==
    [first |-> IF p.first = "" THEN status ELSE p.first,
     ready |-> IF status = "Ready" /\ p.ready < 2 THEN p.ready + 1 ELSE p.ready,
     dead |-> IF status = "Dead" /\ p.dead < 2 THEN p.dead + 1 ELSE p.dead,
     after_dead |-> p.after_dead \/ p.dead > 0]

\* the history after the statuses published among the entries
RECURSIVE Track(_, _)
Track(p, entries) ==
    IF entries = << >> THEN p
    ELSE Track(IF Head(entries).op = "publish" THEN Note(p, Head(entries).status) ELSE p,
               Tail(entries))

\* ------------------------------------------------------------------------
\* State
\* ------------------------------------------------------------------------
VARIABLES
    pc,            \* position of LightProcess.run
    stop_event,    \* the multiprocessing.Event given to LightProcess
    on,            \* i2c_led.on, the value get_state returns
    flags,         \* the six fault indicators of i2c_led
    gpio,          \* the LED select line: "high" or "released"
    flash_reg,     \* last value written to the flash register (None: none yet)
    inbox,         \* unread message held by the MQTT client (NoMsg: none)
    last_message,  \* local variable of treat_message (NoMsg: None)
    log,           \* operations performed for the current message / teardown
    exc,           \* exception that ended the current treat_message call
    last_action,   \* history: the last recognized action processed
    pubs,          \* history: summary of the statuses published so far
    led_id,        \* local variable of i2c_led.__init__ (None: not set)
    call           \* argument of a driver call made directly (None: none)

vars == <<pc, stop_event, on, flags, gpio, flash_reg, inbox, last_message,
          log, exc, last_action, pubs, led_id, call>>

\* ------------------------------------------------------------------------
\* i2c_led
\* ------------------------------------------------------------------------
\* the methods class i2c_led defines
i2c_led_methods ==
    {"__init__", "output_to_led1", "get_id", "get_state", "force_reset",
     "get_flags", "set_flash_current", "_write_byte", "_read_byte"}

NoFlags ==
    [VLED_short |-> FALSE, thermal_scale |-> FALSE, thermal_shutdown |-> FALSE,
     UVLO |-> FALSE, flash_timeout |-> FALSE, IVFM |-> FALSE]

\* bool(b & 2^k)
Bit(b, k) == ((b \div (2 ^ k)) % 2) = 1

\* get_flags with VLED_short taken from bit 4 (mask 0b10000)
get_flags_bit4(b) ==
    [flash_timeout |-> Bit(b, 0), UVLO |-> Bit(b, 1), thermal_shutdown |-> Bit(b, 2),
     thermal_scale |-> Bit(b, 3), VLED_short |-> Bit(b, 4), IVFM |-> Bit(b, 6)]

\* i2c_led.get_flags: the indicators decoded from the byte read
get_flags(b) ==
    [flash_timeout |-> Bit(b, 0), UVLO |-> Bit(b, 1), thermal_shutdown |-> Bit(b, 2),
     thermal_scale |-> Bit(b, 3), VLED_short |-> Bit(b, 5), IVFM |-> Bit(b, 6)]

\* set_flash_current rounding to the nearest value instead of truncating
set_flash_current_round(current) == (current * 85 + 500) \div 1000

\* set_flash_current rounding up
set_flash_current_ceil(current) == (current * 85 + 999) \div 1000

\* i2c_led.set_flash_current: int(current * 0.085), the value written
set_flash_current(current) == (current * 85) \div 1000

\* i2c_led.get_state
get_state == on

\* i2c_led.force_reset: the write it issues
force_reset(part) == <<Write(part, Register_id_reset, ResetCommand)>>

\* get_id masking seven bits, led_id & 0b1111111
get_id_7bits(x) == x % 128

\* i2c_led.get_id: the id taken from the byte read, led_id & 0b111111
get_id(x) == x % 64

\* the initialization keeping what get_flags decoded
clear_flags_keep(b, f) == f

\* i2c_led.__init__, lines 67-74: the indicators after  if self.get_flags():
clear_flags(b, f) == IF b # 0 THEN NoFlags ELSE f

\* the exception logged but not raised again
init_exit_swallowed(raised) == "start"

\* i2c_led.__init__ lines 76-78 and LightProcess.__init__ lines 159-163: the
\* exception is logged and raised again, no object is constructed
init_exit(raised) == "init_failed"

\* i2c_led.output_to_led1
output_to_led1(part) == <<GpioHigh(part)>>

\* ------------------------------------------------------------------------
\* LightProcess
\* ------------------------------------------------------------------------
\* led_off driving the select line low
led_off_deassert(part) == <<Entry(part, "gpio_low", None, None, "", None)>>

led_off(part) == << >>

\* led_on without the call to output_to_led1
led_on_no_select(part) == << >>

led_on(part) == output_to_led1(part)

\* the rejection without its status reply
RejectPart_silent(m) == << >>

\* treat_message, lines 183-191: the reply to a message with neither key
RejectPart(m) ==
    <<Publish("reject", "Received message did not contain action or settings", None)>>

\* the action block answering an unrecognized value with a status
ActionPart_reply_unknown(m) ==
    CASE m.action = "on" -> led_on("action") \o <<Publish("action", "Led 1: On", None)>>
      [] m.action = "off" -> led_off("action") \o <<Publish("action", "Led 1: Off", None)>>
      [] m.action = Absent -> << >>
      [] OTHER -> <<Publish("action", "Action not understood", None)>>

\* treat_message, lines 193-211: what the "action" key causes
ActionPart(m) ==
    CASE m.action = "on" -> led_on("action") \o <<Publish("action", "Led 1: On", None)>>
      [] m.action = "off" -> led_off("action") \o <<Publish("action", "Led 1: Off", None)>>
      [] OTHER -> << >>

\* Python attribute lookup self.led.<name>: a name class i2c_led does not
\* define raises AttributeError
Lookup(name) == IF name \in i2c_led_methods THEN "ok" ELSE "AttributeError"

\* the confirmation placed after the try statement instead of in its else
SetCurrent_no_else(current) ==
    IF Lookup("set_torch_current") # "ok"
    THEN <<Publish("settings", "Error while setting the current, power cycle your machine", None),
           Publish("settings", "Current set to mA", current)>>
    ELSE <<Publish("settings", "Current set to mA", current)>>

\* treat_message, lines 224-234: try: self.led.set_torch_current(current);
\* the bare except publishes the error status, the else branch the confirmation
SetCurrent(current) ==
    IF Lookup("set_torch_current") # "ok"
    THEN <<Publish("settings", "Error while setting the current, power cycle your machine", None)>>
    ELSE <<Publish("settings", "Current set to mA", current)>>

\* treat_message, lines 212-242: what the "settings" key causes, and the
\* exception that leaves the function (if any)
SettingsPart(m) ==
    LET s == m.settings IN
    CASE ~HasSettings(m) -> [entries |-> << >>, raised |-> "none"]
      [] HasSettings(m) /\ InSettings(s) = "TypeError" ->
            [entries |-> << >>, raised |-> "TypeError"]
      [] HasSettings(m) /\ InSettings(s) = "False" ->
            [entries |-> <<Publish("settings", "Settings request not understood in", None)>>,
             raised |-> "none"]
      [] HasSettings(m) /\ InSettings(s) = "True" /\ Subscript(s) = "TypeError" ->
            [entries |-> << >>, raised |-> "TypeError"]
      [] OTHER ->
            IF get_state
            THEN [entries |-> <<GetState("settings", 1),
                                Publish("settings", "Turn off the LED before changing the current", None)>>,
                  raised |-> "none"]
            ELSE [entries |-> <<GetState("settings", 0)>> \o SetCurrent(s.current),
                  raised |-> "none"]

\* run without the publication of "Ready"
ReadyPart_missing == << >>

\* run, line 260: the status published before the loop
ReadyPart == <<Publish("run", "Ready", None)>>

\* run, line 273: the status published at the end of teardown
DeadPart == <<Publish("teardown", "Dead", None)>>

\* the last recognized action after the action part of m
RecordAction(m) == IF m.action \in {"on", "off"} THEN m.action ELSE last_action

\* the settings block placed before the action block
step_after_settings_first(p) ==
    CASE p = "poll" -> "settings"
      [] p = "settings" -> "action"
      [] OTHER -> "sleep"

\* statement order inside treat_message once a message is accepted
step_after(p) ==
    CASE p = "poll" -> "action"
      [] p = "action" -> "settings"
      [] OTHER -> "sleep"

\* treat_message without @logger.catch: the exception reaches run and ends it
treat_message_exit_uncaught(raised) == "aborted"

\* @logger.catch on treat_message: an exception is logged and absorbed, the
\* call returns to the loop in run
treat_message_exit(raised) == "sleep"

\* ------------------------------------------------------------------------
\* Initial state: LightProcess constructed (i2c_led.__init__ succeeded),
\* run not yet started
\* ------------------------------------------------------------------------
Init ==
    /\ pc = "start"
    /\ stop_event = FALSE
    /\ on = FALSE
    /\ flags = NoFlags
    /\ gpio = "high"
    /\ flash_reg = None
    /\ inbox = NoMsg
    /\ last_message = NoMsg
    /\ log = << >>
    /\ exc = "none"
    /\ last_action = "none"
    /\ pubs = NoPubs
    /\ led_id = None
    /\ call = None

\* ------------------------------------------------------------------------
\* Environment
\* ------------------------------------------------------------------------
\* another process sets the stop event
SetStop ==
    /\ ~stop_event
    /\ stop_event' = TRUE
    /\ UNCHANGED <<pc, on, flags, gpio, flash_reg, inbox, last_message, log, exc, last_action, pubs, led_id, call>>

\* the MQTT client thread stores an arriving message; an unread one is replaced
Deliver ==
    /\ pc \notin {"new", "init_reset", "init_flags", "init_clear", "init_id",
                  "led_ready", "init_failed", "start", "done", "aborted"}
    /\ \E m \in Messages : inbox' = m
    /\ UNCHANGED <<pc, stop_event, on, flags, gpio, flash_reg, last_message, log, exc, last_action, pubs, led_id, call>>

\* ------------------------------------------------------------------------
\* LightProcess.run
\* ------------------------------------------------------------------------
\* lines 250-262: connect the client and publish "Ready"
PublishReady ==
    /\ pc = "start"
    /\ pc' = "loop"
    /\ log' = ReadyPart
    /\ pubs' = Track(pubs, ReadyPart)
    /\ UNCHANGED <<stop_event, on, flags, gpio, flash_reg, inbox, last_message, exc, last_action, led_id, call>>

\* line 265: while not self.stop_event.is_set()
LoopTest ==
    /\ pc = "loop"
    /\ IF stop_event
       THEN /\ pc' = "td_current"
            /\ log' = << >>
            /\ last_message' = NoMsg
            /\ exc' = "none"
       ELSE /\ pc' = "poll"
            /\ UNCHANGED <<log, last_message, exc>>
    /\ UNCHANGED <<stop_event, on, flags, gpio, flash_reg, inbox, last_action, pubs, led_id, call>>

\* treat_message, lines 177-192: read the pending message, reject one that
\* has neither key
TreatPoll ==
    /\ pc = "poll"
    /\ exc' = "none"
    /\ IF inbox # NoMsg
       THEN /\ last_message' = inbox
            /\ inbox' = NoMsg
            /\ IF ~HasAction(inbox) /\ ~HasSettings(inbox)
               THEN /\ log' = RejectPart(inbox)
                    /\ pc' = "sleep"
               ELSE /\ log' = << >>
                    /\ pc' = step_after("poll")
       ELSE /\ last_message' = NoMsg
            /\ log' = << >>
            /\ pc' = "sleep"
            /\ UNCHANGED inbox
    /\ pubs' = Track(pubs, log')
    /\ UNCHANGED <<stop_event, on, flags, gpio, flash_reg, last_action, led_id, call>>

\* treat_message, lines 193-211
TreatAction ==
    /\ pc = "action"
    /\ log' = log \o ActionPart(last_message)
    /\ gpio' = gpio_after(gpio, ActionPart(last_message))
    /\ pubs' = Track(pubs, ActionPart(last_message))
    /\ last_action' = RecordAction(last_message)
    /\ pc' = step_after("action")
    /\ UNCHANGED <<stop_event, on, flags, flash_reg, inbox, last_message, exc, led_id, call>>

\* treat_message, lines 212-242
TreatSettings ==
    /\ pc = "settings"
    /\ LET r == SettingsPart(last_message) IN
         /\ log' = log \o r.entries
         /\ pubs' = Track(pubs, r.entries)
         /\ exc' = r.raised
         /\ pc' = IF r.raised = "none"
                  THEN step_after("settings")
                  ELSE treat_message_exit(r.raised)
    /\ UNCHANGED <<stop_event, on, flags, gpio, flash_reg, inbox, last_message, last_action, led_id, call>>

\* line 267: time.sleep(0.1)
Sleep ==
    /\ pc = "sleep"
    /\ pc' = "loop"
    /\ UNCHANGED <<stop_event, on, flags, gpio, flash_reg, inbox, last_message, log, exc, last_action, pubs, led_id, call>>

\* line 270: self.led.set_flash_current(1); a failed bus write raises out of
\* run, whose @logger.catch ends the process
TdCurrent ==
    /\ pc = "td_current"
    /\ \E ok \in BOOLEAN :
         IF ok
         THEN /\ flash_reg' = Some(set_flash_current(1))
              /\ log' = log \o <<Write("teardown", Register_flash, set_flash_current(1))>>
              /\ pc' = "td_flags"
              /\ UNCHANGED exc
         ELSE /\ pc' = "aborted"
              /\ exc' = "OSError"
              /\ UNCHANGED <<flash_reg, log>>
    /\ UNCHANGED <<stop_event, on, flags, gpio, inbox, last_message, last_action, pubs, led_id, call>>

\* line 271: self.led.get_flags()
TdFlags ==
    /\ pc = "td_flags"
    /\ \E ok \in BOOLEAN, b \in FlagBytes :
         IF ok
         THEN /\ flags' = get_flags(b)
              /\ log' = log \o <<Read("teardown", Register_flags, b)>>
              /\ pc' = "td_gpio"
              /\ UNCHANGED exc
         ELSE /\ pc' = "aborted"
              /\ exc' = "OSError"
              /\ UNCHANGED <<flags, log>>
    /\ UNCHANGED <<stop_event, on, gpio, flash_reg, inbox, last_message, last_action, pubs, led_id, call>>

\* line 272: RPi.GPIO.cleanup()
TdGpio ==
    /\ pc = "td_gpio"
    /\ gpio' = gpio_after(gpio, <<GpioCleanup("teardown")>>)
    /\ log' = log \o <<GpioCleanup("teardown")>>
    /\ pc' = "td_dead"
    /\ UNCHANGED <<stop_event, on, flags, flash_reg, inbox, last_message, exc, last_action, pubs, led_id, call>>

\* lines 273-275: publish "Dead" and shut the client down
TdDead ==
    /\ pc = "td_dead"
    /\ log' = log \o DeadPart
    /\ pubs' = Track(pubs, DeadPart)
    /\ pc' = "done"
    /\ UNCHANGED <<stop_event, on, flags, gpio, flash_reg, inbox, last_message, exc, last_action, led_id, call>>

Next ==
    \/ SetStop
    \/ Deliver
    \/ PublishReady
    \/ LoopTest
    \/ TreatPoll
    \/ TreatAction
    \/ TreatSettings
    \/ Sleep
    \/ TdCurrent
    \/ TdFlags
    \/ TdGpio
    \/ TdDead

Spec == Init /\ [][Next]_vars

\* the controller thread keeps running; nothing obliges the environment
Run ==
    \/ PublishReady \/ LoopTest \/ TreatPoll \/ TreatAction \/ TreatSettings
    \/ Sleep \/ TdCurrent \/ TdFlags \/ TdGpio \/ TdDead

FairSpec == Spec /\ WF_vars(Run)

\* ------------------------------------------------------------------------
\* Construction: i2c_led.__init__ and LightProcess.__init__
\* ------------------------------------------------------------------------
\* the state before LightProcess(event) is called
InitNew ==
    /\ pc = "new"
    /\ stop_event = FALSE
    /\ on = FALSE
    /\ flags = NoFlags
    /\ gpio = "unset"
    /\ flash_reg = None
    /\ inbox = NoMsg
    /\ last_message = NoMsg
    /\ log = << >>
    /\ exc = "none"
    /\ last_action = "none"
    /\ pubs = NoPubs
    /\ led_id = None
    /\ call = None

\* i2c_led.__init__, lines 54-64: indicators False, pin set up as output and
\* driven high, on = False
LedInitFields ==
    /\ pc = "new"
    /\ flags' = NoFlags
    /\ on' = FALSE
    /\ log' = <<GpioSetup("init")>> \o output_to_led1("init")
    /\ gpio' = gpio_after(gpio, output_to_led1("init"))
    /\ pc' = "init_reset"
    /\ UNCHANGED <<stop_event, flash_reg, inbox, last_message, exc, last_action, pubs, led_id, call>>

\* i2c_led.__init__, line 66: self.force_reset()
LedInitReset ==
    /\ pc = "init_reset"
    /\ \E ok \in BOOLEAN :
         IF ok
         THEN /\ log' = log \o force_reset("init")
              /\ pc' = "init_flags"
              /\ UNCHANGED exc
         ELSE /\ log' = log \o <<WriteFail("init", Register_id_reset, ResetCommand)>>
              /\ exc' = "OSError"
              /\ pc' = init_exit("OSError")
    /\ UNCHANGED <<stop_event, on, flags, gpio, flash_reg, inbox, last_message, last_action, pubs, led_id, call>>

\* i2c_led.__init__, line 67: the call self.get_flags()
LedInitFlags ==
    /\ pc = "init_flags"
    /\ \E ok \in BOOLEAN, b \in Bytes :
         IF ok
         THEN /\ flags' = get_flags(b)
              /\ log' = log \o <<Read("init", Register_flags, b)>>
              /\ pc' = "init_clear"
              /\ UNCHANGED exc
         ELSE /\ log' = log \o <<ReadFail("init", Register_flags)>>
              /\ exc' = "OSError"
              /\ pc' = init_exit("OSError")
              /\ UNCHANGED flags
    /\ UNCHANGED <<stop_event, on, gpio, flash_reg, inbox, last_message, last_action, pubs, led_id, call>>

\* i2c_led.__init__, lines 67-74: if the byte get_flags returned is nonzero
\* the indicators are set back to False
LedInitClear ==
    /\ pc = "init_clear"
    /\ flags' = clear_flags(log[Len(log)].val[1], flags)
    /\ pc' = "init_id"
    /\ UNCHANGED <<stop_event, on, gpio, flash_reg, inbox, last_message, log, exc, last_action, pubs, led_id, call>>

\* i2c_led.__init__, lines 75-79: led_id = self.get_id()
LedInitId ==
    /\ pc = "init_id"
    /\ \E ok \in BOOLEAN, x \in IdBytes :
         IF ok
         THEN /\ led_id' = Some(get_id(x))
              /\ log' = log \o <<Read("init", Register_id_reset, x)>>
              /\ pc' = "led_ready"
              /\ UNCHANGED exc
         ELSE /\ log' = log \o <<ReadFail("init", Register_id_reset)>>
              /\ exc' = "OSError"
              /\ pc' = init_exit("OSError")
              /\ UNCHANGED led_id
    /\ UNCHANGED <<stop_event, on, flags, gpio, flash_reg, inbox, last_message, last_action, pubs, call>>

\* LightProcess.__init__, lines 156-165: the driver is constructed, the
\* channel is selected once more
ProcInit ==
    /\ pc = "led_ready"
    /\ log' = log \o output_to_led1("init")
    /\ gpio' = gpio_after(gpio, output_to_led1("init"))
    /\ led_id' = None
    /\ pc' = "start"
    /\ UNCHANGED <<stop_event, on, flags, flash_reg, inbox, last_message, exc, last_action, pubs, call>>

NextInit ==
    \/ LedInitFields
    \/ LedInitReset
    \/ LedInitFlags
    \/ LedInitClear
    \/ LedInitId
    \/ ProcInit
    \/ Next

SpecInit == InitNew /\ [][NextInit]_vars

\* ------------------------------------------------------------------------
\* The driver method set_flash_current called on a constructed i2c_led
\* ------------------------------------------------------------------------
InitCurrent ==
    /\ pc = "driver"
    /\ call \in {Some(m) : m \in FlashInputs}
    /\ stop_event = FALSE
    /\ on = FALSE
    /\ flags = NoFlags
    /\ gpio = "high"
    /\ flash_reg = None
    /\ inbox = NoMsg
    /\ last_message = NoMsg
    /\ log = << >>
    /\ exc = "none"
    /\ last_action = "none"
    /\ pubs = NoPubs
    /\ led_id = None

\* i2c_led.set_flash_current(call), lines 120-129: one write of the computed
\* value to the flash register, which the bus may fail
DriverSetFlashCurrent ==
    /\ pc = "driver"
    /\ \E ok \in BOOLEAN :
         IF ok
         THEN /\ log' = log \o <<Write("driver", Register_flash, set_flash_current(call[1]))>>
              /\ flash_reg' = Some(set_flash_current(call[1]))
              /\ pc' = "returned"
              /\ UNCHANGED exc
         ELSE /\ log' = log \o <<WriteFail("driver", Register_flash, set_flash_current(call[1]))>>
              /\ exc' = "OSError"
              /\ pc' = "raised"
              /\ UNCHANGED flash_reg
    /\ UNCHANGED <<stop_event, on, flags, gpio, inbox, last_message, last_action, pubs, led_id, call>>

NextCurrent == DriverSetFlashCurrent

SpecCurrent == InitCurrent /\ [][NextCurrent]_vars

\* ------------------------------------------------------------------------
\* Properties
\* ------------------------------------------------------------------------
Pubs(l) == SelectSeq(l, LAMBDA e : e.op = "publish")
Writes(l) == SelectSeq(l, LAMBDA e : e.op = "write")
PartOf(l, parts) == SelectSeq(l, LAMBDA e : e.part \in parts)

\* treat_message has finished with the message in last_message
Processed == pc = "sleep" /\ last_message # NoMsg

\* the message carries settings.current
CarriesCurrent(m) == m.settings.shape = "dict" /\ m.settings.has

RefusedReply == Publish("settings", "Turn off the LED before changing the current", None)

\* C1: when the last recognized action processed before a message was "on",
\* a message carrying settings.current is refused: nothing is written to the
\* flash register for it and the only status published for it is
\* "Turn off the LED before changing the current".
C1_RefusedAfterOn ==
    (Processed /\ CarriesCurrent(last_message)
       /\ last_message.action \notin {"on", "off"} /\ last_action = "on")
    => /\ Writes(log) = << >>
       /\ Pubs(log) = <<RefusedReply>>

\* C2: the tracked on/off flag equals the last recognized action processed
\* (off when there was none): "on" sets it, "off" clears it.
C2_FlagTracksAction == on <=> (last_action = "on")

\* C3: with the flag off, {"settings":{"current":m}} causes exactly one write,
\* of floor(m*0.085) to the flash register, followed by exactly one status
\* reply "Current set to <m>mA".
C3_CurrentSetWhenOff ==
    (Processed /\ CarriesCurrent(last_message) /\ ~HasAction(last_message) /\ ~on)
    => LET m == last_message.settings.current IN
       SelectSeq(log, LAMBDA e : e.op \in {"write", "publish"})
          = <<Write("settings", Register_flash, (m[1] * 85) \div 1000),
              Publish("settings", "Current set to mA", m)>>

TeardownShape(l) == [i \in 1..Len(l) |-> <<l[i].op, l[i].reg, l[i].status>>]

\* C5: once the stop signal is set the run ends having performed, in this
\* order and each exactly once, the flash-current write of the minimum value,
\* one flags read, the GPIO release and the publication of "Dead", whatever
\* the outcome of the bus transactions; no teardown step happens while a
\* message is being processed.
C5_TeardownComplete ==
    /\ pc \in {"done", "aborted"} =>
          /\ TeardownShape(log) = << <<"write", Some(Register_flash), "">>,
                                     <<"read", Some(Register_flags), "">>,
                                     <<"gpio_cleanup", None, "">>,
                                     <<"publish", None, "Dead">> >>
          /\ log[1].val = Some(0)
    /\ pc \in {"poll", "action", "settings", "sleep"} => PartOf(log, {"teardown"}) = << >>

\* C6: every message that is rejected or whose operation fails (neither key,
\* a settings payload of any shape that is not understood, a current change
\* while on, a driver failure during the current set) gets exactly one status
\* reply for that; the unrecognized action value is the one exception.
C6_OneReplyPerRejection ==
    (Processed /\ (HasSettings(last_message) \/ ~HasAction(last_message)))
    => Len(Pubs(PartOf(log, {"reject", "settings"}))) = 1

LoopPcs == {"loop", "poll", "action", "settings", "sleep"}

\* C7: the polling loop is left only by the loop test finding the stop signal
\* set; a message of any content, or a failure while it is processed, returns
\* control to the loop, which goes on to poll the next message.
C7_LoopOnlyStopsOnSignal ==
    /\ [][(pc \in LoopPcs /\ pc' \notin LoopPcs) => (pc = "loop" /\ stop_event)]_vars
    /\ ((pc = "sleep" /\ last_message # NoMsg) ~> (pc = "poll" \/ stop_event))

\* a treat_message call ended by an exception, the loop about to poll the
\* next pending message
C7_Witness == pc = "poll" /\ exc = "TypeError" /\ inbox # NoMsg /\ ~stop_event

\* C8: a message with neither action nor settings gets exactly one status
\* reply, causes no chip or GPIO operation and leaves the flag unchanged.
C8_NeitherKeyRejected ==
    [][(pc = "poll" /\ pc' # "poll" /\ inbox # NoMsg
          /\ ~HasAction(inbox) /\ ~HasSettings(inbox))
       => /\ log' = <<Publish("reject", "Received message did not contain action or settings", None)>>
          /\ pc' = "sleep"
          /\ on' = on /\ gpio' = gpio /\ flash_reg' = flash_reg /\ flags' = flags]_vars

C8_Witness ==
    /\ Processed /\ ~HasAction(last_message) /\ ~HasSettings(last_message)
    /\ Len(log) = 1

\* C9: action "on" without settings calls output_to_led1 exactly once, writes
\* no register and publishes exactly one status, "Led 1: On".
C9_OnSelectsChannelOnce ==
    (Processed /\ last_message.action = "on" /\ ~HasSettings(last_message))
    => log = <<GpioHigh("action"), Publish("action", "Led 1: On", None)>>

C9_Witness ==
    /\ Processed /\ last_message.action = "on" /\ ~HasSettings(last_message)
    /\ Len(SelectSeq(log, LAMBDA e : e.op = "gpio_high")) = 1

\* C10: for a message with both keys, both parts are processed in the same
\* call, the action part first: everything the action causes precedes
\* everything the settings cause, and the gating reads the flag as the action
\* part left it.
C10_ActionBeforeSettings ==
    (Processed /\ HasAction(last_message) /\ HasSettings(last_message))
    => /\ \A i, j \in 1..Len(log) :
             (log[i].part = "action" /\ log[j].part = "settings") => i < j
       /\ PartOf(log, {"action"}) = ActionPart(last_message)
       /\ (exc = "none" /\ ~CarriesCurrent(last_message))
             => Len(PartOf(log, {"settings"})) = 1
       /\ CarriesCurrent(last_message)
             => /\ Len(PartOf(log, {"settings"})) = 2
                /\ \A i \in 1..Len(log) :
                      log[i].op = "get_state" => log[i].val = Some(IF on THEN 1 ELSE 0)

C10_Witness ==
    /\ Processed /\ last_message.action = "on" /\ CarriesCurrent(last_message)
    /\ Len(PartOf(log, {"action"})) = 2 /\ Len(PartOf(log, {"settings"})) = 2

ErrorReply ==
    Publish("settings", "Error while setting the current, power cycle your machine", None)

\* C11: when the driver call made for a current change fails, treat_message
\* absorbs the failure: exactly one status, the "Error while setting the
\* current" one, is published and no confirmation, the flag is unchanged and
\* the call returns normally to the loop.
C11_DriverFailureAbsorbed ==
    [][(pc = "settings" /\ pc' # "settings" /\ CarriesCurrent(last_message)
          /\ ~get_state /\ Lookup("set_torch_current") # "ok")
       => /\ Pubs(log') = Pubs(log) \o <<ErrorReply>>
          /\ Writes(log') = Writes(log)
          /\ on' = on
          /\ exc' = "none"
          /\ pc' = "sleep"]_vars

C11_Witness ==
    /\ Processed /\ CarriesCurrent(last_message) /\ ~HasAction(last_message)
    /\ Pubs(log) = <<ErrorReply>>

Failures(l) == SelectSeq(l, LAMBDA e : e.op \in {"write_failed", "read_failed"})

\* a bus transaction of the construction has raised
InitFailed == PartOf(Failures(log), {"init"}) # << >>

\* C12: when a bus transaction of the driver initialization (reset write,
\* flags read, id read) fails, the failure leaves both constructors: the
\* controller is not constructed, the loop never starts, "Ready" is never
\* published and no transaction follows the failed one.
C12_InitFailurePropagates ==
    /\ [](InitFailed =>
            /\ pc = "init_failed"
            /\ pubs = NoPubs
            /\ Len(Failures(log)) = 1
            /\ log[Len(log)].op \in {"write_failed", "read_failed"})
    /\ [][InitFailed => (pc' = pc /\ log' = log /\ pubs' = pubs)]_vars

C12_Witness ==
    /\ pc = "init_failed"
    /\ log[Len(log)] = ReadFail("init", Register_flags)

\* bit k of byte b is set
HasBit(b, k) == (b % (2 ^ (k + 1))) >= 2 ^ k

\* the bit-position table of the fault flags
FlagTable(b) ==
    [flash_timeout |-> HasBit(b, 0), UVLO |-> HasBit(b, 1),
     thermal_shutdown |-> HasBit(b, 2), thermal_scale |-> HasBit(b, 3),
     VLED_short |-> HasBit(b, 5), IVFM |-> HasBit(b, 6)]

\* byte b with bits 4 and 7 cleared
Reserved0(b) ==
    b - (IF HasBit(b, 4) THEN 16 ELSE 0) - (IF HasBit(b, 7) THEN 128 ELSE 0)

\* get_flags has just returned: the last entry is its read of the flags register
FlagsJustRead ==
    /\ pc \in {"init_clear", "td_gpio"}
    /\ log[Len(log)].op = "read" /\ log[Len(log)].reg = Some(Register_flags)

\* C13: for every flags byte 0..255, after get_flags the six indicators are
\* bit0 = flash_timeout, bit1 = UVLO, bit2 = thermal_shutdown, bit3 =
\* thermal_scale, bit5 = VLED_short, bit6 = IVFM; bits 4 and 7 change nothing.
C13_FlagsDecoding ==
    FlagsJustRead =>
        LET b == log[Len(log)].val[1] IN
        /\ flags = FlagTable(b)
        /\ flags = FlagTable(Reserved0(b))

C13_Witness ==
    /\ FlagsJustRead /\ pc = "init_clear"
    /\ log[Len(log)].val = Some(176)
    /\ flags.VLED_short /\ ~flags.IVFM /\ ~flags.flash_timeout

\* C14: for every integer m in 11..1500 set_flash_current(m) performs exactly
\* one write, to the flash register, of floor(m*85/1000); for m = 0 it writes
\* 0 and raises nothing of its own; every value written lies in 0..127.
C14_FlashCurrentMapping ==
    pc \in {"returned", "raised"} =>
        LET m == call[1]
            e == log[1] IN
        /\ Len(log) = 1
        /\ e.op \in {"write", "write_failed"}
        /\ e.reg = Some(Register_flash)
        /\ 1000 * e.val[1] <= 85 * m /\ 85 * m < 1000 * (e.val[1] + 1)
        /\ e.val[1] \in 0..127
        /\ m = 0 => e.val = Some(0)
        /\ pc = "raised" <=> e.op = "write_failed"
        /\ pc = "returned" => flash_reg = e.val

C14_Witness ==
    /\ pc = "returned" /\ call = Some(1500)
    /\ log = <<Write("driver", Register_flash, 127)>>

\* C15: action "off" causes no I2C transaction and no GPIO operation and
\* publishes exactly one status, "Led 1: Off"; the select line, driven high
\* at initialization, is high in every state until the GPIO release of the
\* shutdown.
C15_OffLeavesLineHigh ==
    /\ (Processed /\ last_message.action = "off" /\ ~HasSettings(last_message))
          => log = <<Publish("action", "Led 1: Off", None)>>
    /\ pc \notin {"new", "td_dead", "done"} => gpio = "high"

C15_Witness ==
    /\ Processed /\ last_message.action = "off" /\ ~HasSettings(last_message)
    /\ last_action = "off" /\ gpio = "high" /\ Len(log) = 1

UnknownAction(m) == m.action \notin {"on", "off", Absent}

\* C16: a message whose action is neither "on" nor "off" and that has no
\* settings causes no chip or GPIO operation and no status reply and leaves
\* the flag unchanged.
C16_UnknownActionIgnored ==
    /\ [][(pc = "action" /\ pc' # "action" /\ UnknownAction(last_message))
          => /\ log' = log /\ pubs' = pubs /\ on' = on
             /\ gpio' = gpio /\ flash_reg' = flash_reg /\ flags' = flags]_vars
    /\ []((Processed /\ UnknownAction(last_message) /\ ~HasSettings(last_message))
            => log = << >>)

C16_Witness ==
    /\ Processed /\ last_message.action = "blink" /\ ~HasSettings(last_message)
    /\ log = << >> /\ exc = "none"

InitPcs == {"init_reset", "init_flags", "init_clear", "init_id", "led_ready", "init_failed"}

\* the line and bus operations among the entries, pin set-up left out
LineAndBus(l) == SelectSeq(l, LAMBDA e : e.op # "gpio_setup")

\* C17: driver initialization drives the select line high, then writes
\* 0b10000000 to the id/reset register, then reads the flags register once,
\* then reads the id/reset register once and takes its low 6 bits as the id;
\* it writes no other register and every bus transaction follows the select.
C17_InitOrder ==
    pc \in InitPcs =>
        LET o == LineAndBus(log) IN
        /\ o[1] = GpioHigh("init")
        /\ \A i \in 1..Len(o) :
              /\ o[i].op \in {"write", "write_failed"}
                    => (i = 2 /\ o[i].reg = Some(Register_id_reset) /\ o[i].val = Some(128))
              /\ o[i].op \in {"read", "read_failed"} => i \in {3, 4}
              /\ o[i].op = "gpio_high" => i = 1
        /\ pc = "led_ready" =>
              /\ Len(o) = 4
              /\ o[2].op = "write"
              /\ o[3].op = "read" /\ o[3].reg = Some(Register_flags)
              /\ o[4].op = "read" /\ o[4].reg = Some(Register_id_reset)
              /\ led_id # None
              /\ led_id[1] \in 0..63
              /\ (o[4].val[1] - led_id[1]) % 64 = 0

C17_Witness ==
    /\ pc = "led_ready" /\ led_id = Some(24)
    /\ log[Len(log)] = Read("init", Register_id_reset, 88)

\* C18: the first status of a run is "Ready", published exactly once and
\* before any message is polled; "Dead" is published at most once and nothing
\* after it; every status caused by a message lies between the two.
C18_ReadyFirstDeadLast ==
    /\ pubs.first \in {"", "Ready"}
    /\ pubs.ready <= 1 /\ pubs.dead <= 1 /\ ~pubs.after_dead
    /\ pc # "start" => pubs.ready = 1
    /\ pc = "start" => pubs = NoPubs
    /\ pc \in {"poll", "action", "settings", "sleep"} => pubs.dead = 0
    /\ last_message # NoMsg => (pubs.ready = 1 /\ pubs.dead = 0)
    /\ pubs.dead = 1 <=> pc = "done"

C18_Witness ==
    /\ pc = "done" /\ last_action = "on"
    /\ pubs = [first |-> "Ready", ready |-> 1, dead |-> 1, after_dead |-> FALSE]

\* C19: whenever i2c_led.__init__ completes, all six indicators are False,
\* whatever flags byte the chip returned: a nonzero byte is decoded and the
\* indicators are then reset.
C19_IndicatorsClearedAfterInit ==
    pc \in {"init_id", "led_ready"} => flags = NoFlags

C19_Witness ==
    /\ pc = "led_ready" /\ flags = NoFlags
    /\ \E i \in 1..Len(log) : log[i] = Read("init", Register_flags, 111)

\* C20: the flash-current write of the shutdown, requested as 1 mA, carries
\* register value 0, the value a requested current of 0 gives; after a
\* completed shutdown the last value written to the flash register is 0.
C20_ShutdownWritesZero ==
    pc \in {"td_flags", "td_gpio", "td_dead", "done"} =>
        /\ flash_reg = Some(0)
        /\ log[1] = Write("teardown", Register_flash, 0)
        /\ flash_reg = Some(set_flash_current(0))

C20_Witness == pc = "done" /\ flash_reg = Some(0) /\ Len(Writes(log)) = 1

====
